---- MODULE Spec2Model ----
(***************************************************************************)
(* A model of the pilet emulator's live-update bridge                      *)
(* (piral-cli/src/common/importmap.ts, installPiletEmulator) and of the    *)
(* entry classifier (piral-base/src/inspect.ts, inspectPilet), of the      *)
(* emulator's initial module set, of the pilet locale API and the          *)
(* localizer (piral-translate/src/create.ts), of                           *)
(* ForeignComponentContainer, of combinePiletExternals                     *)
(* (piral-cli/src/common/package.ts), of the generated navigation object   *)
(* (piral-core/app.codegen) and of readImportmap.                          *)
(* Each component has its own specification; the variables of the other    *)
(* components stay at their initial values in it.                          *)
(*                                                                         *)
(* Time is counted in milliseconds.  A timer fires no earlier than its     *)
(* delay says and possibly later: time may pass and socket messages may    *)
(* be handled while it is due.  removePilet and addPilet are supplied by   *)
(* the caller; their promises settle at any later moment, fulfilled or     *)
(* rejected.                                                               *)
(***************************************************************************)
EXTENDS Integers, Sequences, FiniteSets, TLC

VARIABLES
  sessionItem,   \* sessionStorage item 'dbg:hard-refresh'
  timeoutCache,  \* timeoutCache[name]: last timer handle stored for the name (0: undefined)
  timers,        \* the pending (scheduled, not fired, not cleared) timers
  nextHandle,    \* the handle the next setTimeout call returns
  cycles,        \* the reload cycles started by fired timers, by timer handle
  reloaded,      \* location.reload() was called: the page is gone
  threw,         \* uncaught exceptions raised by ws.onmessage
  sent,          \* history: socket messages delivered so far
  sinceLast,     \* history: ms since the last change notification per name (capped)
  bursts,        \* history: per name, the last notification of each burst
  removedSince,  \* history: a removePilet of the name resolved since its last addPilet resolved
  lastAdded,     \* history: version carried by the last addPilet that resolved, per name
  meta,          \* inspectPilet: the descriptor under inspection
  inBrowser,     \* inspectPilet: typeof document !== 'undefined'
  result,        \* inspectPilet: the returned tuple (empty before the call)
  loadItem,      \* sessionStorage item 'dbg:load-pilets' when installPiletEmulator runs
  requester,     \* the requester the integrate callback invoked ("none" before)
  requestCalls,  \* invocations of the requestPilets given to installPiletEmulator
  promise,       \* the promise returned by requester()
  appendix,      \* the promise of the debug endpoint's pilets
  response,      \* history: the JSON item the debug endpoint answered with
  initialSet,    \* the promise the integrate callback returns
  localTranslations, \* createLocaleApi: each API instance's localTranslations, by pilet
  lastSet,       \* history: per instance, the messages of its last setTranslations call
  call,          \* the last call on a locale API instance and the messages it returned or used
  container,     \* a ForeignComponentContainer instance: its fields, props and the calls it made
  appShells,     \* combinePiletExternals: the names of the referenced app shells
  peerDependencies, \* combinePiletExternals: the pilet's peerDependencies (name, version pairs)
  peerModules,   \* combinePiletExternals: the pilet's peerModules
  importmap,     \* combinePiletExternals: the shared dependencies (spliced in place)
  givenImportmap, \* history: the shared dependencies as they were passed
  externals,     \* combinePiletExternals: the returned list (empty before the call)
  config,        \* setupLocalizer: the LocaleConfig
  localizer,     \* the Localizer built by setupLocalizer
  language,      \* the global state's language slice (available, selected)
  handlers,      \* the handlers registered for 'select-language', by subscription
  subscriptions, \* history: per getCurrentLanguage(cb) call, what cb was called with
  events,        \* history: the currentLanguage of every select-language event
  lastGet,       \* the last getCurrentLanguage call and what it returned
  routerVersion, \* the major version of react-router the module was generated for
  nav,           \* the module-level _nav
  routerMounted, \* the number of mounted components using useCurrentNavigation
  registered,    \* the callbacks registered with the router's history
  held,          \* the enhanced locations handed to blockers and listeners
  navCalls,      \* the calls made on the router's history
  navThrew,      \* exceptions raised by the navigation object or an enhanced location
  lastNav,       \* the last operation on the navigation object or an enhanced location
  packages,      \* readImportmap: the package.json of every resolvable package
  root,          \* readImportmap: the package readImportmap is called for
  stack,         \* readImportmap: the nested readImportmap calls in progress (the innermost)
  outer,         \* readImportmap: there are calls in progress outside the ones in stack
  outcome,       \* readImportmap: idle, running, returned, failed or overflow
  resolved       \* readImportmap: the returned shared dependencies

bvars == <<sessionItem, timeoutCache, timers, nextHandle, cycles, reloaded, threw,
           sent, sinceLast, bursts, removedSince, lastAdded>>
ivars == <<meta, inBrowser, result>>
evars == <<loadItem, requester, requestCalls, promise, appendix, response, initialSet>>
lvars == <<localTranslations, lastSet, call>>
xvars == <<appShells, peerDependencies, peerModules, importmap, givenImportmap, externals>>
gvars == <<config, localizer, language, handlers, subscriptions, events, lastGet>>
nvars == <<routerVersion, nav, routerMounted, registered, held, navCalls, navThrew, lastNav>>
rvars == <<packages, root, stack, outer, outcome, resolved>>
vars == <<bvars, ivars, evars, lvars, container, xvars, gvars, nvars, rvars>>

\* ------------------------------------------------------------------ bounds

MaxMsgs == 3
TickMs == 50
MaxFeed == 2
MaxDebug == 2
MaxRerenders == 6
MaxLiveMsgs == 2

Names == {"a", "b"}
ItemValues == {"on", "off", "null"}

\* ------------------------------------------------- the live-update bridge

timeout == 150

Min(x, y) == IF x < y THEN x ELSE y

\* The socket message text of a change notification: the JSON text of an
\* object with a name and a build version; the empty text is no JSON.
Notification(n, v) == <<"name", n, "version", v>>
Garbage == <<>>

IsJSON(data) == Len(data) = 4

\* JSON.parse(data)
JSONparse(data) == [name |-> data[2], version |-> data[4]]

\* Faulty variant: compares the item with 'true'.
IsHardRefreshTrue(item) == item = "true"
\* sessionStorage.getItem('dbg:hard-refresh') === 'on'
IsHardRefresh(item) == item = "on"

\* Faulty variant: one timer for all names: every pending timer is cleared.
ClearTimeoutAll(ts, h) == {}
\* Faulty variant: the pending timer is not cleared.
ClearTimeoutNoop(ts, h) == ts
\* clearTimeout(timeoutCache[name]): a handle that is undefined, fired or
\* cleared already clears nothing.
ClearTimeout(ts, h) == {t \in ts : t.id # h}

\* Faulty variant: setTimeout without its delay.
NewTimerNoDelay(h, m, data) == [id |-> h, meta |-> m, data |-> data, remaining |-> 0]
\* setTimeout(() => ..., timeout): the callback closes over meta; data is
\* history (the message that scheduled the timer).
NewTimer(h, m, data) == [id |-> h, meta |-> m, data |-> data, remaining |-> timeout]

\* Faulty variant: addPilet(meta) is called without waiting for removePilet.
NewCycleEager(t, b) ==
  [meta |-> t.meta, data |-> t.data, burst |-> b, phase |-> "removing",
   freezes |-> 1, unfreezes |-> 0,
   removeCalls |-> <<t.meta.name>>, addCalls |-> <<t.meta>>]
\* The timer callback up to its return: freezeRouteRefresh(), then
\* removePilet(meta.name); addPilet waits for the promise.
NewCycle(t, b) ==
  [meta |-> t.meta, data |-> t.data, burst |-> b, phase |-> "removing",
   freezes |-> 1, unfreezes |-> 0,
   removeCalls |-> <<t.meta.name>>, addCalls |-> <<>>]

\* Faulty variant: .then(unfreeze), with no rejection handler.
UnfreezeOnFulfilled(settlement) == IF settlement = "fulfilled" THEN 1 ELSE 0
\* .then(unfreeze, unfreeze): the calls of unfreeze when the chain settles
UnfreezeCalls(settlement) == 1

Pending == {"removing", "adding"}
Settled == {"reloaded", "removeRejected", "addRejected"}

NamedCycles(n) == {i \in DOMAIN cycles : cycles[i].meta.name = n}
NamedTimers(n) == {t \in timers : t.meta.name = n}

\* History of a change notification for name n carrying data: it continues
\* the burst when it comes less than `timeout` after the previous one.
NoteBurst(n, data) ==
  /\ bursts' = [bursts EXCEPT ![n] =
       IF Len(@) > 0 /\ sinceLast[n] < timeout
       THEN [@ EXCEPT ![Len(@)] = data]
       ELSE Append(@, data)]
  /\ sinceLast' = [sinceLast EXCEPT ![n] = 0]

\* sessionStorage.setItem / removeItem by the developer
SetHardRefresh(v) ==
  /\ ~reloaded
  /\ v # sessionItem
  /\ sessionItem' = v
  /\ UNCHANGED <<timeoutCache, timers, nextHandle, cycles, reloaded, threw,
                 sent, sinceLast, bursts, removedSince, lastAdded>>
  /\ UNCHANGED <<ivars, evars, lvars, container, xvars, gvars, nvars, rvars>>

\* ws.onmessage = ({ data }) => { ... }
WsMessage(data) ==
  /\ ~reloaded
  /\ sent < MaxMsgs
  /\ sent' = sent + 1
  /\ \/ /\ IsHardRefresh(sessionItem)
        /\ reloaded' = TRUE
        /\ UNCHANGED <<timeoutCache, timers, nextHandle, threw>>
     \/ /\ ~IsHardRefresh(sessionItem)
        /\ ~IsJSON(data)
        /\ threw' = threw + 1
        /\ UNCHANGED <<timeoutCache, timers, nextHandle, reloaded>>
     \/ /\ ~IsHardRefresh(sessionItem)
        /\ IsJSON(data)
        /\ LET m == JSONparse(data)
               name == m.name
           IN /\ timers' = ClearTimeout(timers, timeoutCache[name])
                             \cup {NewTimer(nextHandle, m, data)}
              /\ timeoutCache' = [timeoutCache EXCEPT ![name] = nextHandle]
              /\ nextHandle' = nextHandle + 1
        /\ UNCHANGED <<threw, reloaded>>
  /\ IF sessionItem # "on" /\ IsJSON(data)
     THEN NoteBurst(data[2], data)
     ELSE UNCHANGED <<sinceLast, bursts>>
  /\ UNCHANGED <<sessionItem, cycles, removedSince, lastAdded>>
  /\ UNCHANGED <<ivars, evars, lvars, container, xvars, gvars, nvars, rvars>>

\* the setTimeout callback
TimerFires(t) ==
  /\ ~reloaded
  /\ t \in timers
  /\ t.remaining = 0
  /\ timers' = timers \ {t}
  /\ cycles' = [i \in DOMAIN cycles \cup {t.id} |->
                  IF i = t.id THEN NewCycle(t, Len(bursts[t.meta.name])) ELSE cycles[i]]
  /\ UNCHANGED <<sessionItem, timeoutCache, nextHandle, reloaded, threw,
                 sent, sinceLast, bursts, removedSince, lastAdded>>
  /\ UNCHANGED <<ivars, evars, lvars, container, xvars, gvars, nvars, rvars>>

\* removePilet's promise is fulfilled: .then(() => addPilet(meta))
RemoveResolves(i) ==
  /\ ~reloaded
  /\ i \in DOMAIN cycles
  /\ cycles[i].phase = "removing"
  /\ cycles' = [cycles EXCEPT ![i].phase = "adding",
                              ![i].addCalls = Append(@, cycles[i].meta)]
  /\ removedSince' = [removedSince EXCEPT ![cycles[i].meta.name] = TRUE]
  /\ UNCHANGED <<sessionItem, timeoutCache, timers, nextHandle, reloaded, threw,
                 sent, sinceLast, bursts, lastAdded>>
  /\ UNCHANGED <<ivars, evars, lvars, container, xvars, gvars, nvars, rvars>>

\* Faulty variant: addPilet(meta) is called although removePilet rejected.
RemoveRejectedAddsAnyway(c) ==
  [c EXCEPT !.phase = "removeRejected", !.unfreezes = @ + UnfreezeCalls("rejected"),
            !.addCalls = Append(@, c.meta)]
\* A rejection of removePilet passes .then(() => addPilet(meta)), which has no
\* rejection handler, and is taken by the second unfreeze of
\* .then(unfreeze, unfreeze).
RemoveRejected(c) ==
  [c EXCEPT !.phase = "removeRejected", !.unfreezes = @ + UnfreezeCalls("rejected")]

\* removePilet's promise is rejected: addPilet is skipped, unfreeze runs
RemoveRejects(i) ==
  /\ ~reloaded
  /\ i \in DOMAIN cycles
  /\ cycles[i].phase = "removing"
  /\ cycles' = [cycles EXCEPT ![i] = RemoveRejected(@)]
  /\ UNCHANGED <<sessionItem, timeoutCache, timers, nextHandle, reloaded, threw,
                 sent, sinceLast, bursts, removedSince, lastAdded>>
  /\ UNCHANGED <<ivars, evars, lvars, container, xvars, gvars, nvars, rvars>>

\* addPilet's promise is fulfilled: unfreeze runs
AddResolves(i) ==
  /\ ~reloaded
  /\ i \in DOMAIN cycles
  /\ cycles[i].phase = "adding"
  /\ cycles' = [cycles EXCEPT ![i].phase = "reloaded",
                              ![i].unfreezes = @ + UnfreezeCalls("fulfilled")]
  /\ removedSince' = [removedSince EXCEPT ![cycles[i].meta.name] = FALSE]
  /\ lastAdded' = [lastAdded EXCEPT ![cycles[i].meta.name] = cycles[i].meta.version]
  /\ UNCHANGED <<sessionItem, timeoutCache, timers, nextHandle, reloaded, threw,
                 sent, sinceLast, bursts>>
  /\ UNCHANGED <<ivars, evars, lvars, container, xvars, gvars, nvars, rvars>>

\* addPilet's promise is rejected: unfreeze runs
AddRejects(i) ==
  /\ ~reloaded
  /\ i \in DOMAIN cycles
  /\ cycles[i].phase = "adding"
  /\ cycles' = [cycles EXCEPT ![i].phase = "addRejected",
                              ![i].unfreezes = @ + UnfreezeCalls("rejected")]
  /\ UNCHANGED <<sessionItem, timeoutCache, timers, nextHandle, reloaded, threw,
                 sent, sinceLast, bursts, removedSince, lastAdded>>
  /\ UNCHANGED <<ivars, evars, lvars, container, xvars, gvars, nvars, rvars>>

\* The step by which time advances: at most TickMs, never past the expiry of
\* a timer that is not due yet.
Step == LET rs == {t.remaining : t \in timers} \ {0}
        IN IF \E r \in rs : r < TickMs THEN CHOOSE r \in rs : \A q \in rs : r <= q
           ELSE TickMs

\* Time passes.  A timer that is due (remaining 0) fires when the event loop
\* gets to it: until then it stays due, and ws.onmessage may run before it.
Tick ==
  /\ ~reloaded
  /\ timers' = {[t EXCEPT !.remaining = IF @ > Step THEN @ - Step ELSE 0] : t \in timers}
  /\ sinceLast' = [n \in Names |-> Min(sinceLast[n] + Step, timeout + 1)]
  /\ UNCHANGED <<sessionItem, timeoutCache, nextHandle, cycles, reloaded, threw,
                 sent, bursts, removedSince, lastAdded>>
  /\ UNCHANGED <<ivars, evars, lvars, container, xvars, gvars, nvars, rvars>>

NoMeta == [name |-> "none"]

BridgeInit ==
  /\ sessionItem \in ItemValues
  /\ timeoutCache = [n \in Names |-> 0]
  /\ timers = {}
  /\ nextHandle = 1
  /\ cycles = <<>>
  /\ reloaded = FALSE
  /\ threw = 0
  /\ sent = 0
  /\ sinceLast = [n \in Names |-> timeout + 1]
  /\ bursts = [n \in Names |-> <<>>]
  /\ removedSince = [n \in Names |-> FALSE]
  /\ lastAdded = [n \in Names |-> 0]

NoPromise == [state |-> "none", value |-> <<>>]

\* No descriptor is under inspection.
InspectIdle ==
  /\ meta = NoMeta
  /\ inBrowser = TRUE
  /\ result = <<>>

\* The integrate callback has not run.
EmulatorIdle ==
  /\ requester = "none"
  /\ requestCalls = 0
  /\ promise = NoPromise
  /\ appendix = NoPromise
  /\ response = <<"none">>
  /\ initialSet = NoPromise

\* LocalizationMessages: per language, the texts (here one text per language)
Langs == {"en", "de"}
Texts == {"x", "y"}
Messages == UNION {[S -> Texts] : S \in SUBSET Langs}
\* {}
NoMessages == [l \in {} |-> "x"]

NoCall == [op |-> "none", pilet |-> "none", messages |-> NoMessages]

\* No pilet API has been created.
LocaleIdle ==
  /\ localTranslations = [q \in {} |-> NoMessages]
  /\ lastSet = [q \in {} |-> NoMessages]
  /\ call = NoCall

\* DOM nodes: none (undefined), the container's div, and the stand-in object
\* a patched componentDidMount records as previous node
NoNode == "undefined"
Div == "div"
Stub == "stub"

\* A container not rendered yet, with the given component and prototype.
NewContainer(component, patched) ==
  [phase |-> "none", current |-> NoNode, previous |-> NoNode, log |-> <<>>,
   component |-> component, patched |-> patched, rerenders |-> 0]

\* No container is rendered.
ContainerIdle == container = NewContainer({"mount"}, FALSE)

\* combinePiletExternals has not been called.
ExternalsIdle ==
  /\ appShells = <<>>
  /\ peerDependencies = <<>>
  /\ peerModules = <<>>
  /\ importmap = <<>>
  /\ givenImportmap = <<>>
  /\ externals = <<>>

\* A LocaleConfig without messages and language
NoConfig == [messages |-> <<"undefined">>, language |-> <<"undefined">>]
NoLocalizer == [language |-> "undefined", languages |-> <<>>]
NoGet == [cb |-> FALSE, selected |-> "undefined", returned |-> "undefined", added |-> 0]

\* No localizer has been set up.
LanguageIdle ==
  /\ config = NoConfig
  /\ localizer = NoLocalizer
  /\ language = [available |-> <<>>, selected |-> "undefined"]
  /\ handlers = {}
  /\ subscriptions = <<>>
  /\ events = <<>>
  /\ lastGet = NoGet

NoNav == [op |-> "none", nav |-> "undefined", calls |-> 0, returned |-> "undefined",
          threw |-> FALSE]

\* The generated module is loaded and no router is mounted.
NavigationIdle ==
  /\ routerVersion = 5
  /\ nav = "undefined"
  /\ routerMounted = 0
  /\ registered = {}
  /\ held = {}
  /\ navCalls = <<>>
  /\ navThrew = 0
  /\ lastNav = NoNav

\* readImportmap has not been called.
ImportmapIdle ==
  /\ packages = <<>>
  /\ root = "none"
  /\ stack = <<>>
  /\ outer = FALSE
  /\ outcome = "idle"
  /\ resolved = <<>>

Init ==
  /\ BridgeInit
  /\ InspectIdle
  /\ loadItem = "null"
  /\ EmulatorIdle
  /\ LocaleIdle
  /\ ContainerIdle
  /\ ExternalsIdle
  /\ LanguageIdle
  /\ NavigationIdle
  /\ ImportmapIdle

Next ==
  \/ \E v \in ItemValues : SetHardRefresh(v)
  \/ \E n \in Names : WsMessage(Notification(n, sent + 1))
  \/ WsMessage(Garbage)
  \/ \E t \in timers : TimerFires(t)
  \/ \E i \in DOMAIN cycles : RemoveResolves(i)
  \/ \E i \in DOMAIN cycles : RemoveRejects(i)
  \/ \E i \in DOMAIN cycles : AddResolves(i)
  \/ \E i \in DOMAIN cycles : AddRejects(i)
  \/ Tick

Spec == Init /\ [][Next]_vars

\* The bridge in a browser whose event loop runs: time passes, a timer that is
\* due fires, and the promises of removePilet and addPilet settle.
Fairness ==
  /\ WF_vars(Tick)
  /\ WF_vars(\E t \in timers : TimerFires(t))
  /\ \A i \in 1..MaxLiveMsgs : WF_vars(RemoveResolves(i) \/ RemoveRejects(i))
  /\ \A i \in 1..MaxLiveMsgs : WF_vars(AddResolves(i) \/ AddRejects(i))

\* Next with at most MaxLiveMsgs socket messages
LiveNext ==
  \/ \E v \in ItemValues : SetHardRefresh(v)
  \/ sent < MaxLiveMsgs /\ \E n \in Names : WsMessage(Notification(n, sent + 1))
  \/ sent < MaxLiveMsgs /\ WsMessage(Garbage)
  \/ \E t \in timers : TimerFires(t)
  \/ \E i \in DOMAIN cycles : RemoveResolves(i)
  \/ \E i \in DOMAIN cycles : RemoveRejects(i)
  \/ \E i \in DOMAIN cycles : AddResolves(i)
  \/ \E i \in DOMAIN cycles : AddRejects(i)
  \/ Tick

SpecLive == Init /\ [][LiveNext]_vars /\ Fairness

\* ------------------------------------------------------ the entry classifier

Absent == "absent"
Fields == {"link", "requireRef", "bundle", "hash", "spec"}

\* A descriptor is an object: a function from the names of its own fields to
\* their values.  A value is written as its JSON text (true, false) or, for a
\* string, as the string.
Descriptor(l, r, b, h, s) ==
  LET given == [f \in Fields |->
                  CASE f = "link" -> l [] f = "requireRef" -> r [] f = "bundle" -> b
                    [] f = "hash" -> h [] OTHER -> s]
      own == {f \in Fields : given[f] # Absent} \cup {"name"}
  IN [f \in own |-> IF f = "name" THEN "p" ELSE given[f]]

Descriptors ==
  {Descriptor(l, r, b, h, s) :
     l \in {Absent, "/p.js"}, r \in {Absent, "ref"},
     b \in {Absent, "true", "false", ""}, h \in {Absent, "h1"},
     s \in {Absent, "v2", "v1"}}

\* 'f' in m
In(f, m) == f \in DOMAIN m
\* m.f
Get(m, f) == IF f \in DOMAIN m THEN m[f] ELSE "undefined"
\* the truthiness of a value
Truthy(v) == v \notin {"false", "", "0", "null", "undefined"}

Kinds == {"v0", "v1", "v2", "bundle", "unknown"}

\* Faulty variant: v0 is the fallback, the hash test is missing.
inspectPiletDefaultV0(m, browser) ==
  IF browser /\ In("link", m) /\ Get(m, "spec") = "v2" THEN <<"v2", m, "setupSinglePilet">>
  ELSE IF browser /\ In("requireRef", m) /\ Get(m, "spec") # "v2"
    THEN <<"v1", m, "setupSinglePilet">>
  ELSE IF browser /\ In("bundle", m) /\ Truthy(Get(m, "bundle"))
    THEN <<"bundle", m, "setupPiletBundle">>
  ELSE <<"v0", m, "setupSinglePilet">>
\* Faulty variant: the bundle rule is tested before the v2 rule.
inspectPiletBundleFirst(m, browser) ==
  IF browser /\ In("bundle", m) /\ Truthy(Get(m, "bundle"))
    THEN <<"bundle", m, "setupPiletBundle">>
  ELSE IF browser /\ In("link", m) /\ Get(m, "spec") = "v2"
    THEN <<"v2", m, "setupSinglePilet">>
  ELSE IF browser /\ In("requireRef", m) /\ Get(m, "spec") # "v2"
    THEN <<"v1", m, "setupSinglePilet">>
  ELSE IF In("hash", m) THEN <<"v0", m, "setupSinglePilet">>
  ELSE <<"unknown", m, "setupSinglePilet">>
\* inspectPilet with one fault: "v1AnySpec" drops the spec test of the v1 rule,
\* "bundleAny" the truthiness test of the bundle rule, "hashGated" makes the
\* hash rule browser-only, "copy" returns a normalised copy of the descriptor,
\* "ungated" drops the inBrowser test of the v2, v1 and bundle rules.
FaultyInspect(m, browser, fault) ==
  LET out == IF fault = "copy"
             THEN [f \in DOMAIN m \cup {"spec"} |-> IF f \in DOMAIN m THEN m[f] ELSE "v0"]
             ELSE m
      gate == browser \/ fault = "ungated"
  IN IF gate /\ In("link", m) /\ Get(m, "spec") = "v2"
       THEN <<"v2", out, "setupSinglePilet">>
     ELSE IF gate /\ In("requireRef", m) /\ (fault = "v1AnySpec" \/ Get(m, "spec") # "v2")
       THEN <<"v1", out, "setupSinglePilet">>
     ELSE IF gate /\ In("bundle", m) /\ (fault = "bundleAny" \/ Truthy(Get(m, "bundle")))
       THEN <<"bundle", out, "setupPiletBundle">>
     ELSE IF (fault # "hashGated" \/ browser) /\ In("hash", m)
       THEN <<"v0", out, "setupSinglePilet">>
     ELSE <<"unknown", out, "setupSinglePilet">>
\* Faulty variant: every descriptor with requireRef is v1.
inspectPiletV1AnySpec(m, browser) == FaultyInspect(m, browser, "v1AnySpec")
\* Faulty variant: a bundle field of any value makes a bundle.
inspectPiletBundleAny(m, browser) == FaultyInspect(m, browser, "bundleAny")
\* Faulty variant: the hash rule is tested in a browser only.
inspectPiletHashGated(m, browser) == FaultyInspect(m, browser, "hashGated")
\* Faulty variant: the descriptor is returned as a copy with a spec filled in.
inspectPiletCopy(m, browser) == FaultyInspect(m, browser, "copy")
\* Faulty variant: the rules are the same in and outside a browser.
inspectPiletUngated(m, browser) == FaultyInspect(m, browser, "ungated")
\* inspectPilet(meta), with inBrowser = typeof document !== 'undefined'
inspectPilet(m, browser) ==
  IF browser /\ In("link", m) /\ Get(m, "spec") = "v2" THEN <<"v2", m, "setupSinglePilet">>
  ELSE IF browser /\ In("requireRef", m) /\ Get(m, "spec") # "v2"
    THEN <<"v1", m, "setupSinglePilet">>
  ELSE IF browser /\ In("bundle", m) /\ Truthy(Get(m, "bundle"))
    THEN <<"bundle", m, "setupPiletBundle">>
  ELSE IF In("hash", m) THEN <<"v0", m, "setupSinglePilet">>
  ELSE <<"unknown", m, "setupSinglePilet">>

\* A caller classifies the descriptor at hand.
Inspect ==
  /\ result = <<>>
  /\ result' = inspectPilet(meta, inBrowser)
  /\ UNCHANGED <<meta, inBrowser>>
  /\ UNCHANGED <<bvars, evars, lvars, container, xvars, gvars, nvars, rvars>>

InspectInit ==
  /\ BridgeInit
  /\ sessionItem = "null"
  /\ meta \in Descriptors
  /\ inBrowser \in BOOLEAN
  /\ result = <<>>
  /\ loadItem = "null"
  /\ EmulatorIdle
  /\ LocaleIdle
  /\ ContainerIdle
  /\ ExternalsIdle
  /\ LanguageIdle
  /\ NavigationIdle
  /\ ImportmapIdle

InspectNext == Inspect

SpecInspect == InspectInit /\ [][InspectNext]_vars

\* ------------------------------------- the emulator's initial module set

\* The sequences over S of length at most n
SeqsUpTo(S, n) == UNION {[1..k -> S] : k \in 0..n}

\* A pilet descriptor as the feed or the debug endpoint delivers it
Pilet(n, origin) == [name |-> n, from |-> origin]
FeedLists == SeqsUpTo({Pilet(n, "feed") : n \in Names}, MaxFeed)
DebugLists == SeqsUpTo({Pilet(n, "debug") : n \in Names}, MaxDebug)

\* res.json(): an array of descriptors or a single descriptor
Responses ==
  {<<"array", l>> : l \in DebugLists} \cup {<<"object", Pilet(n, "debug")>> : n \in Names}

\* Faulty variant: only 'off' switches the feed off.
loadPiletsUnlessOff(item) == item # "off"
\* sessionStorage.getItem('dbg:load-pilets') === 'on'
loadPilets(item) == item = "on"

\* Array.isArray(item) ? item : [item]
ToArray(item) == IF item[1] = "array" THEN item[2] ELSE <<item[2]>>

\* Faulty variant: a rejection of the feed request is passed on.
CaughtNot(p) == p
\* promise.catch((err) => { console.error(...); return []; })
Caught(p) == IF p.state = "rejected" THEN [state |-> "fulfilled", value |-> <<>>] ELSE p

\* debugPilets.map((m) => m.name)
debugPiletNames(debugPilets) == {debugPilets[i].name : i \in 1..Len(debugPilets)}

Wanted(m, debugPilets) == m.name \notin debugPiletNames(debugPilets)

\* Faulty variant: the feed pilets are not filtered.
MergeUnfiltered(pilets, debugPilets) == pilets \o debugPilets
\* feedPilets = pilets.filter(...); [...feedPilets, ...debugPilets]
Merge(pilets, debugPilets) ==
  LET keep[i \in 0..Len(pilets)] ==
        IF i = 0 THEN <<>>
        ELSE IF Wanted(pilets[i], debugPilets) THEN Append(keep[i - 1], pilets[i])
        ELSE keep[i - 1]
  IN keep[Len(pilets)] \o debugPilets

\* The promise returned to integrate, once both of its sources have settled:
\* promise.catch(...).then((pilets) => appendix.then((debugPilets) => ...))
Returned(p, a) ==
  LET c == Caught(p)
  IN IF c.state = "pending" \/ a.state = "pending" THEN [state |-> "pending", value |-> <<>>]
     ELSE IF c.state = "rejected" \/ a.state = "rejected"
       THEN [state |-> "rejected", value |-> <<>>]
     ELSE [state |-> "fulfilled", value |-> Merge(c.value, a.value)]

\* integrate runs its callback: requester() is called and the debug endpoint
\* is fetched.
Integrate ==
  /\ requester = "none"
  /\ requester' = (IF loadPilets(loadItem) THEN "requestPilets" ELSE "noPilets")
  /\ requestCalls' = requestCalls + (IF loadPilets(loadItem) THEN 1 ELSE 0)
  /\ promise' = [state |-> "pending", value |-> <<>>]
  /\ appendix' = [state |-> "pending", value |-> <<>>]
  /\ initialSet' = Returned(promise', appendix')
  /\ UNCHANGED <<loadItem, response>>
  /\ UNCHANGED <<bvars, ivars, lvars, container, xvars, gvars, nvars, rvars>>

\* requester()'s promise is fulfilled: noPilets gives [], requestPilets the feed
FeedFulfils(pilets) ==
  /\ promise.state = "pending"
  /\ requester = "noPilets" => pilets = <<>>
  /\ promise' = [state |-> "fulfilled", value |-> pilets]
  /\ initialSet' = Returned(promise', appendix)
  /\ UNCHANGED <<loadItem, requester, requestCalls, appendix, response>>
  /\ UNCHANGED <<bvars, ivars, lvars, container, xvars, gvars, nvars, rvars>>

\* requestPilets' promise is rejected
FeedRejects ==
  /\ promise.state = "pending"
  /\ requester = "requestPilets"
  /\ promise' = [state |-> "rejected", value |-> <<>>]
  /\ initialSet' = Returned(promise', appendix)
  /\ UNCHANGED <<loadItem, requester, requestCalls, appendix, response>>
  /\ UNCHANGED <<bvars, ivars, lvars, container, xvars, gvars, nvars, rvars>>

\* fetch(initialTarget).then((res) => res.json()).then(...) is fulfilled
AppendixFulfils(item) ==
  /\ appendix.state = "pending"
  /\ response' = item
  /\ appendix' = [state |-> "fulfilled", value |-> ToArray(item)]
  /\ initialSet' = Returned(promise, appendix')
  /\ UNCHANGED <<loadItem, requester, requestCalls, promise>>
  /\ UNCHANGED <<bvars, ivars, lvars, container, xvars, gvars, nvars, rvars>>

\* the fetch, or reading its JSON, fails
AppendixRejects ==
  /\ appendix.state = "pending"
  /\ appendix' = [state |-> "rejected", value |-> <<>>]
  /\ initialSet' = Returned(promise, appendix')
  /\ UNCHANGED <<loadItem, requester, requestCalls, promise, response>>
  /\ UNCHANGED <<bvars, ivars, lvars, container, xvars, gvars, nvars, rvars>>

EmulatorInit ==
  /\ BridgeInit
  /\ sessionItem = "null"
  /\ InspectIdle
  /\ loadItem \in ItemValues
  /\ EmulatorIdle
  /\ LocaleIdle
  /\ ContainerIdle
  /\ ExternalsIdle
  /\ LanguageIdle
  /\ NavigationIdle
  /\ ImportmapIdle

EmulatorNext ==
  \/ Integrate
  \/ \E pilets \in FeedLists : FeedFulfils(pilets)
  \/ FeedRejects
  \/ \E item \in Responses : AppendixFulfils(item)
  \/ AppendixRejects

SpecEmulator == EmulatorInit /\ [][EmulatorNext]_vars

\* ------------------------------------------------- the pilet locale API

\* Faulty variant: one localTranslations shared by all instances.
StoreShared(lt, p, messages) == [q \in DOMAIN lt |-> messages]
\* localTranslations = messages, in the closure of the instance of pilet p
StoreTranslations(lt, p, messages) == [lt EXCEPT ![p] = messages]

\* (api) => { let localTranslations = {}; return { ... }; }
CreateApi(p) ==
  /\ p \notin DOMAIN localTranslations
  /\ localTranslations' =
       [q \in DOMAIN localTranslations \cup {p} |->
          IF q = p THEN NoMessages ELSE localTranslations[q]]
  /\ lastSet' = [q \in DOMAIN lastSet \cup {p} |-> IF q = p THEN NoMessages ELSE lastSet[q]]
  /\ call' = [op |-> "create", pilet |-> p, messages |-> NoMessages]
  /\ UNCHANGED <<bvars, ivars, evars, container, xvars, gvars, nvars, rvars>>

\* setTranslations(messages)
SetTranslations(p, messages) ==
  /\ p \in DOMAIN localTranslations
  /\ localTranslations' = StoreTranslations(localTranslations, p, messages)
  /\ lastSet' = [lastSet EXCEPT ![p] = messages]
  /\ call' = [op |-> "setTranslations", pilet |-> p, messages |-> messages]
  /\ UNCHANGED <<bvars, ivars, evars, container, xvars, gvars, nvars, rvars>>

\* getTranslations(): returns localTranslations
GetTranslations(p) ==
  /\ p \in DOMAIN localTranslations
  /\ call' = [op |-> "getTranslations", pilet |-> p, messages |-> localTranslations[p]]
  /\ UNCHANGED <<localTranslations, lastSet>>
  /\ UNCHANGED <<bvars, ivars, evars, container, xvars, gvars, nvars, rvars>>

\* translate(tag, variables): localizer.localizeLocal(localTranslations, tag, variables)
Translate(p) ==
  /\ p \in DOMAIN localTranslations
  /\ call' = [op |-> "translate", pilet |-> p, messages |-> localTranslations[p]]
  /\ UNCHANGED <<localTranslations, lastSet>>
  /\ UNCHANGED <<bvars, ivars, evars, container, xvars, gvars, nvars, rvars>>

LocaleInit ==
  /\ BridgeInit
  /\ sessionItem = "null"
  /\ InspectIdle
  /\ loadItem = "null"
  /\ EmulatorIdle
  /\ LocaleIdle
  /\ ContainerIdle
  /\ ExternalsIdle
  /\ LanguageIdle
  /\ NavigationIdle
  /\ ImportmapIdle

LocaleNext ==
  \/ \E p \in Names : CreateApi(p)
  \/ \E p \in Names : \E messages \in Messages : SetTranslations(p, messages)
  \/ \E p \in Names : GetTranslations(p)
  \/ \E p \in Names : Translate(p)

SpecLocale == LocaleInit /\ [][LocaleNext]_vars

\* -------------------------------------------- ForeignComponentContainer

\* The components the container is given: mount is required, update and
\* unmount are optional.
Components == {{"mount"} \cup S : S \in SUBSET {"update", "unmount"}}

Called(c, op, node) == [c EXCEPT !.log = Append(@, <<op, node>>)]

\* Faulty variant: the node mounted on is not recorded.
componentDidMountForgetful(c) ==
  IF c.current # NoNode /\ "mount" \in c.component THEN Called(c, "mount", c.current) ELSE c
\* componentDidMount(): mount on the current node and record it as previous
componentDidMount(c) ==
  LET c1 == IF c.current # NoNode /\ "mount" \in c.component
            THEN Called(c, "mount", c.current) ELSE c
  IN [c1 EXCEPT !.previous = c.current]

\* The componentDidMount in effect: the original one, or the patched one that
\* calls it and then records a stand-in as previous node.
DidMount(c) ==
  IF c.patched THEN [componentDidMount(c) EXCEPT !.previous = Stub] ELSE componentDidMount(c)

\* componentWillUnmount(): unmount from the recorded node and forget it
componentWillUnmount(c) ==
  LET c1 == IF c.previous # NoNode /\ "unmount" \in c.component
            THEN Called(c, "unmount", c.previous) ELSE c
  IN [c1 EXCEPT !.previous = NoNode]

\* Faulty variant: update is called whatever node was recorded.
componentDidUpdateAlways(c) ==
  IF "update" \in c.component THEN Called(c, "update", c.current) ELSE c
\* componentDidUpdate(): re-mount when the node changed, update otherwise
componentDidUpdate(c) ==
  IF c.current # c.previous
  THEN LET c1 == IF c.previous # NoNode THEN componentWillUnmount(c) ELSE c
       IN IF c1.current # NoNode THEN DidMount(c1) ELSE c1
  ELSE IF "update" \in c.component THEN Called(c, "update", c.current) ELSE c

\* render(<ForeignComponentContainer ... />): the div is created, the ref is
\* set and componentDidMount runs.
Render ==
  /\ container.phase = "none"
  /\ container' = DidMount([container EXCEPT !.phase = "mounted", !.current = Div])
  /\ UNCHANGED <<bvars, ivars, evars, lvars, xvars, gvars, nvars, rvars>>

\* container.rerender(...) with new innerProps: componentDidUpdate runs.
Rerender ==
  /\ container.phase = "mounted"
  /\ container.rerenders < MaxRerenders
  /\ container' = componentDidUpdate([container EXCEPT !.rerenders = @ + 1])
  /\ UNCHANGED <<bvars, ivars, evars, lvars, xvars, gvars, nvars, rvars>>

\* container.unmount(): componentWillUnmount runs, then the ref is reset.
Unmount ==
  /\ container.phase = "mounted"
  /\ container' = [componentWillUnmount(container) EXCEPT
                     !.phase = "unmounted", !.current = NoNode]
  /\ UNCHANGED <<bvars, ivars, evars, lvars, xvars, gvars, nvars, rvars>>

ContainerInit ==
  /\ BridgeInit
  /\ sessionItem = "null"
  /\ InspectIdle
  /\ loadItem = "null"
  /\ EmulatorIdle
  /\ LocaleIdle
  /\ \E component \in Components : \E patched \in BOOLEAN :
       container = NewContainer(component, patched)
  /\ ExternalsIdle
  /\ LanguageIdle
  /\ NavigationIdle
  /\ ImportmapIdle

ContainerNext ==
  \/ Render
  \/ Rerender
  \/ Unmount

SpecContainer == ContainerInit /\ [][ContainerNext]_vars

\* ------------------------------------------------- combinePiletExternals

MaxEntries == 2
MaxShells == 2

AppNames == {"shell1", "shell2"}
DepNames == {"react", "lodash"}

\* A SharedDependency: its name and its parents, the packages it was inherited
\* from (a list, tagged "array") or undefined for an entry of the importmap's
\* own imports.
SharedDependency(name, parents) == [name |-> name, parents |-> parents]
ParentLists ==
  {<<"undefined">>} \cup
  {<<"array", l>> : l \in {<<>>, <<"shell1">>, <<"shell2">>, <<"shell1", "shell2">>}}
SharedDependencies == {SharedDependency(n, ps) : n \in DepNames, ps \in ParentLists}

\* Object.keys(peerDependencies)
ObjectKeys(obj) == [i \in 1..Len(obj) |-> obj[i][1]]

\* Array.isArray(entry.parents)
IsArray(v) == v[1] = "array"

\* entry.parents.includes(app)
Includes(list, app) == \E i \in 1..Len(list) : list[i] = app

\* Faulty variant: one app shell sharing the entry is enough.
EveryAppSome(shells, entry) == \E i \in 1..Len(shells) : Includes(entry.parents[2], shells[i])
\* appShells.every((app) => entry.parents.includes(app))
EveryApp(shells, entry) == \A i \in 1..Len(shells) : Includes(entry.parents[2], shells[i])

\* importmap.splice(i, 1)
Splice(list, i) == SubSeq(list, 1, i - 1) \o SubSeq(list, i + 1, Len(list))

\* for (let i = importmap.length; i--; ) { ... }: the state <<externals,
\* importmap>> after the iterations for the indices i, i - 1, ..., 1
RECURSIVE CombineFrom(_, _, _, _)
CombineFrom(shells, ext, im, i) ==
  IF i = 0 THEN <<ext, im>>
  ELSE LET entry == im[i]
       IN IF IsArray(entry.parents) /\ EveryApp(shells, entry)
          THEN CombineFrom(shells, Append(ext, entry.name), Splice(im, i), i - 1)
          ELSE CombineFrom(shells, ext, im, i - 1)

\* combinePiletExternals(appShells, peerDependencies, peerModules, importmap):
\* the returned externals and the importmap it leaves
combinePiletExternals(shells, peers, modules, im) ==
  CombineFrom(shells, ObjectKeys(peers) \o modules, im, Len(im))

CombinePiletExternals ==
  /\ externals = <<>>
  /\ LET out == combinePiletExternals(appShells, peerDependencies, peerModules, importmap)
     IN /\ externals' = <<out[1]>>
        /\ importmap' = out[2]
  /\ UNCHANGED <<appShells, peerDependencies, peerModules, givenImportmap>>
  /\ UNCHANGED <<bvars, ivars, evars, lvars, container, gvars, nvars, rvars>>

ExternalsInit ==
  /\ BridgeInit
  /\ sessionItem = "null"
  /\ InspectIdle
  /\ loadItem = "null"
  /\ EmulatorIdle
  /\ LocaleIdle
  /\ ContainerIdle
  /\ appShells \in SeqsUpTo(AppNames, MaxShells)
  /\ peerDependencies \in {<<>>, <<<<"react", "*">>>>, <<<<"vue", "3">>, <<"react", "*">>>>}
  /\ peerModules \in {<<>>, <<"lodash/fp">>}
  /\ importmap \in SeqsUpTo(SharedDependencies, MaxEntries)
  /\ givenImportmap = importmap
  /\ externals = <<>>
  /\ LanguageIdle
  /\ NavigationIdle
  /\ ImportmapIdle

ExternalsNext == CombinePiletExternals

SpecExternals == ExternalsInit /\ [][ExternalsNext]_vars

\* ------------------------------------- the localizer and its language

MaxSubs == 2
MaxEvents == 2

\* config.messages: undefined, or an object whose keys are the languages
MessageObjects ==
  {<<"undefined">>} \cup
  {<<"object", ks>> : ks \in {<<>>, <<"en">>, <<"de">>, <<"de", "en">>, <<"en", "de">>, <<"fr">>}}

\* config.language: undefined, a string, or a function of the message
\* languages, the default language and a fallback language: "default" returns
\* its second argument, "fallback" its third, "first" the first of the
\* languages it is given (undefined when there is none).
LanguageSettings ==
  {<<"undefined">>} \cup {<<"string", l>> : l \in {"", "en", "de", "fr"}}
    \cup {<<"function", f>> : f \in {"default", "fallback", "first"}}

LocaleConfigs == [messages : MessageObjects, language : LanguageSettings]

\* a || b
Or(a, b) == IF Truthy(a) THEN a ELSE b
\* list[0]
First(list) == IF Len(list) > 0 THEN list[1] ELSE "undefined"

\* computeLang(languages, defaultLang, 'en')
ComputeLang(f, languages, defaultLang, fallbackLang) ==
  CASE f = "default" -> defaultLang
    [] f = "fallback" -> fallbackLang
    [] OTHER -> First(languages)

\* setupLocalizer(config): the language and the languages given to new Localizer
setupLocalizer(cfg) ==
  LET languages == IF cfg.messages[1] = "undefined" THEN <<>> ELSE cfg.messages[2]
      defaultLang == Or(First(languages), "en")
      usedLang == IF cfg.language[1] = "function"
                  THEN ComputeLang(cfg.language[2], languages, defaultLang, "en")
                  ELSE IF cfg.language[1] = "string" THEN cfg.language[2] ELSE "undefined"
      lang == Or(usedLang, defaultLang)
  IN [language |-> lang, languages |-> IF Len(languages) > 0 THEN languages ELSE <<lang>>]

\* Faulty variant: cb is not called when it is passed.
FirstCallsNone(selected) == <<>>
\* cb(selected)
FirstCalls(selected) == <<selected>>

\* Faulty variant: the disposer leaves the handler registered.
OffNoop(hs, h) == hs
\* api.off('select-language', handler)
Off(hs, h) == hs \ {h}
\* api.on('select-language', handler)
On(hs, h) == hs \cup {h}

\* createLocaleApi(setupLocalizer(config)): the localizer is built and the
\* global state's language slice is set from it.
SetupLocale ==
  /\ localizer = NoLocalizer
  /\ localizer' = setupLocalizer(config)
  /\ language' = [available |-> localizer'.languages, selected |-> localizer'.language]
  /\ UNCHANGED <<config, handlers, subscriptions, events, lastGet>>
  /\ UNCHANGED <<bvars, ivars, evars, lvars, container, xvars, nvars, rvars>>

\* getCurrentLanguage(cb): cb is called with the selected language, a handler
\* for 'select-language' is registered and its disposer returned.
GetCurrentLanguageCb ==
  /\ localizer # NoLocalizer
  /\ Len(subscriptions) < MaxSubs
  /\ LET h == Len(subscriptions) + 1
     IN /\ subscriptions' = Append(subscriptions,
             [first |-> language.selected, from |-> Len(events), until |-> -1,
              calls |-> FirstCalls(language.selected)])
        /\ handlers' = On(handlers, h)
        /\ lastGet' = [cb |-> TRUE, selected |-> language.selected, returned |-> "disposer",
                       added |-> Cardinality(handlers') - Cardinality(handlers)]
  /\ UNCHANGED <<config, localizer, language, events>>
  /\ UNCHANGED <<bvars, ivars, evars, lvars, container, xvars, nvars, rvars>>

\* getCurrentLanguage(): the selected language is returned.
GetCurrentLanguage ==
  /\ localizer # NoLocalizer
  /\ lastGet' = [cb |-> FALSE, selected |-> language.selected,
                 returned |-> language.selected, added |-> 0]
  /\ UNCHANGED <<config, localizer, language, handlers, subscriptions, events>>
  /\ UNCHANGED <<bvars, ivars, evars, lvars, container, xvars, nvars, rvars>>

\* A 'select-language' event with currentLanguage l: every registered handler
\* calls its cb with l.
SelectLanguageEvent(l) ==
  /\ localizer # NoLocalizer
  /\ Len(events) < MaxEvents
  /\ events' = Append(events, l)
  /\ subscriptions' = [h \in DOMAIN subscriptions |->
       IF h \in handlers THEN [subscriptions[h] EXCEPT !.calls = Append(@, l)]
       ELSE subscriptions[h]]
  /\ UNCHANGED <<config, localizer, language, handlers, lastGet>>
  /\ UNCHANGED <<bvars, ivars, evars, lvars, container, xvars, nvars, rvars>>

\* The global state's selected language changes.
SelectLanguage(l) ==
  /\ localizer # NoLocalizer
  /\ l # language.selected
  /\ language' = [language EXCEPT !.selected = l]
  /\ UNCHANGED <<config, localizer, handlers, subscriptions, events, lastGet>>
  /\ UNCHANGED <<bvars, ivars, evars, lvars, container, xvars, nvars, rvars>>

\* The disposer returned for subscription h is called.
Dispose(h) ==
  /\ h \in DOMAIN subscriptions
  /\ handlers' = Off(handlers, h)
  /\ subscriptions' = [subscriptions EXCEPT ![h].until = IF @ = -1 THEN Len(events) ELSE @]
  /\ UNCHANGED <<config, localizer, language, events, lastGet>>
  /\ UNCHANGED <<bvars, ivars, evars, lvars, container, xvars, nvars, rvars>>

\* The LocaleConfig is any of LocaleConfigs.
LocalizerInit ==
  /\ BridgeInit
  /\ sessionItem = "null"
  /\ InspectIdle
  /\ loadItem = "null"
  /\ EmulatorIdle
  /\ LocaleIdle
  /\ ContainerIdle
  /\ ExternalsIdle
  /\ config \in LocaleConfigs
  /\ localizer = NoLocalizer
  /\ language = [available |-> <<>>, selected |-> "undefined"]
  /\ handlers = {}
  /\ subscriptions = <<>>
  /\ events = <<>>
  /\ lastGet = NoGet
  /\ NavigationIdle
  /\ ImportmapIdle

LocalizerNext == SetupLocale

SpecLocalizer == LocalizerInit /\ [][LocalizerNext]_vars

\* The LocaleConfig is the default one, or one with messages in de and en.
LanguageInit ==
  /\ BridgeInit
  /\ sessionItem = "null"
  /\ InspectIdle
  /\ loadItem = "null"
  /\ EmulatorIdle
  /\ LocaleIdle
  /\ ContainerIdle
  /\ ExternalsIdle
  /\ config \in {NoConfig, [NoConfig EXCEPT !.messages = <<"object", <<"de", "en">>>>]}
  /\ localizer = NoLocalizer
  /\ language = [available |-> <<>>, selected |-> "undefined"]
  /\ handlers = {}
  /\ subscriptions = <<>>
  /\ events = <<>>
  /\ lastGet = NoGet
  /\ NavigationIdle
  /\ ImportmapIdle

LanguageNext ==
  \/ SetupLocale
  \/ GetCurrentLanguageCb
  \/ GetCurrentLanguage
  \/ \E l \in {"en", "de"} : SelectLanguageEvent(l)
  \/ \E l \in {"en", "de"} : SelectLanguage(l)
  \/ \E h \in 1..MaxSubs : Dispose(h)

SpecLanguage == LanguageInit /\ [][LanguageNext]_vars

\* ------------------------------------------- the navigation object

MaxNavCalls == 3
MaxHeld == 2
MaxThrows == 1
MaxMounted == 2

RouterVersions == {5, 6}

\* ctx.history (react-router below 6) or ctx.navigator (from 6 on)
RouterHandle(version) == IF version < 6 THEN "history" ELSE "navigator"

\* if (_nav) { ... }
IsSet(n) == n # "undefined"

\* The record of an operation: the _nav it found, the calls it made on the
\* router's history, what it returned and whether it threw
NavOp(op, n, calls, returned, thrown) ==
  [op |-> op, nav |-> n, calls |-> calls, returned |-> returned, threw |-> thrown]

\* enhance(info): the location handed to a blocker or listener, with its href
\* getter; v is the shape of info ((location, action) below 6, the transition
\* or update itself from 6 on)
Enhance(id, cb, version) ==
  [id |-> id, from |-> cb.kind,
   info |-> IF version < 6 THEN "location, action" ELSE "update"]

\* useEffect(() => { _nav = ctx.history; ... }, []) on the mount of a
\* component that uses useRouteFilter
MountRouter ==
  /\ routerMounted < MaxMounted
  /\ routerMounted' = routerMounted + 1
  /\ nav' = RouterHandle(routerVersion)
  /\ UNCHANGED <<routerVersion, registered, held, navCalls, navThrew, lastNav>>
  /\ UNCHANGED <<bvars, ivars, evars, lvars, container, xvars, gvars, rvars>>

\* the effect's cleanup on the unmount of such a component: _nav = undefined
UnmountRouter ==
  /\ routerMounted > 0
  /\ routerMounted' = routerMounted - 1
  /\ nav' = "undefined"
  /\ UNCHANGED <<routerVersion, registered, held, navCalls, navThrew, lastNav>>
  /\ UNCHANGED <<bvars, ivars, evars, lvars, container, xvars, gvars, rvars>>

\* push(target, state), replace(target, state), go(n)
Navigate(op) ==
  /\ Len(navCalls) < MaxNavCalls
  /\ IF IsSet(nav)
     THEN /\ navCalls' = Append(navCalls, op)
          /\ lastNav' = NavOp(op, nav, 1, "undefined", FALSE)
     ELSE /\ navCalls' = navCalls
          /\ lastNav' = NavOp(op, nav, 0, "undefined", FALSE)
  /\ UNCHANGED <<routerVersion, nav, routerMounted, registered, held, navThrew>>
  /\ UNCHANGED <<bvars, ivars, evars, lvars, container, xvars, gvars, rvars>>

\* block(blocker), listen(listener): _noop without _nav, else the callback is
\* registered with the router's history, which returns its unregister function
Register(kind) ==
  /\ Len(navCalls) < MaxNavCalls
  /\ IF ~IsSet(nav)
     THEN /\ lastNav' = NavOp(kind, nav, 0, "_noop", FALSE)
          /\ UNCHANGED <<navCalls, registered>>
     ELSE /\ navCalls' = Append(navCalls, kind)
          /\ registered' = registered \cup {[id |-> Len(navCalls) + 1, kind |-> kind]}
          /\ lastNav' = NavOp(kind, nav, 1, "unregister", FALSE)
  /\ UNCHANGED <<routerVersion, nav, routerMounted, held, navThrew>>
  /\ UNCHANGED <<bvars, ivars, evars, lvars, container, xvars, gvars, rvars>>

\* The function returned by the history's block or listen is called.
Unregister(cb) ==
  /\ cb \in registered
  /\ registered' = registered \ {cb}
  /\ UNCHANGED <<routerVersion, nav, routerMounted, held, navCalls, navThrew, lastNav>>
  /\ UNCHANGED <<bvars, ivars, evars, lvars, container, xvars, gvars, rvars>>

\* The history calls a registered callback: the blocker or listener is given
\* enhance(info) and keeps the location.
Notify(cb) ==
  /\ cb \in registered
  /\ Cardinality(held) < MaxHeld
  /\ held' = held \cup {Enhance(Cardinality(held) + 1, cb, routerVersion)}
  /\ UNCHANGED <<routerVersion, nav, routerMounted, registered, navCalls, navThrew, lastNav>>
  /\ UNCHANGED <<bvars, ivars, evars, lvars, container, xvars, gvars, rvars>>

\* location.href is read: get href() { return _nav.createHref(info.location); }
ReadHref(loc) ==
  /\ loc \in held
  /\ IF nav = "undefined"
     THEN /\ navThrew < MaxThrows
          /\ navThrew' = navThrew + 1
          /\ lastNav' = NavOp("href", nav, 0, "undefined", TRUE)
          /\ UNCHANGED navCalls
     ELSE /\ Len(navCalls) < MaxNavCalls
          /\ navCalls' = Append(navCalls, "createHref")
          /\ lastNav' = NavOp("href", nav, 1, "href", FALSE)
          /\ UNCHANGED navThrew
  /\ UNCHANGED <<routerVersion, nav, routerMounted, registered, held>>
  /\ UNCHANGED <<bvars, ivars, evars, lvars, container, xvars, gvars, rvars>>

NavigationInit ==
  /\ BridgeInit
  /\ sessionItem = "null"
  /\ InspectIdle
  /\ loadItem = "null"
  /\ EmulatorIdle
  /\ LocaleIdle
  /\ ContainerIdle
  /\ ExternalsIdle
  /\ LanguageIdle
  /\ routerVersion \in RouterVersions
  /\ nav = "undefined"
  /\ routerMounted = 0
  /\ registered = {}
  /\ held = {}
  /\ navCalls = <<>>
  /\ navThrew = 0
  /\ lastNav = NoNav
  /\ ImportmapIdle

NavigationNext ==
  \/ MountRouter
  \/ UnmountRouter
  \/ \E op \in {"push", "replace", "go"} : Navigate(op)
  \/ \E kind \in {"block", "listen"} : Register(kind)
  \/ \E cb \in registered : Unregister(cb)
  \/ \E cb \in registered : Notify(cb)
  \/ \E loc \in held : ReadHref(loc)

SpecNavigation == NavigationInit /\ [][NavigationNext]_vars

\* ------------------------------------------------------- readImportmap

MaxInherit == 2
MaxDepth == 4

\* The packages tryResolvePackage finds; "gone" is a name it does not find.
Pkgs == {"p", "q"}

\* An importmap's imports: none, one that resolves to a local package, or one
\* whose reference is not found
ImportLists == {<<>>, <<"x">>, <<"bad">>}
InheritLists ==
  {<<"undefined">>} \cup {<<"array", l>> : l \in SeqsUpTo(Pkgs \cup {"gone"}, MaxInherit)}

\* A package.json: its importmap (undefined, an object, or the name of a file
\* that is not there) and its sharedDependencies
PackageJsons ==
  [importmap : {<<"undefined">>, <<"missingFile">>}, shared : {<<"undefined">>, <<"array", <<"y">>>>}]
    \cup [importmap : {<<"object", [imports |-> i, inherit |-> h]>> :
                         i \in ImportLists, h \in InheritLists},
          shared : {<<"undefined">>}]

\* A readImportmap call in progress: its package, whether it was called for
\* an inherited import, the dependencies collected so far, where it is
\* ("called", in the inherit loop before entry `pos`, or "returning"), and
\* its depth on the call stack: a call is made on the stack of its caller,
\* and a call that has awaited continues on a fresh stack
Frame(pkg, inherited, nest) ==
  [pkg |-> pkg, inherited |-> inherited, deps |-> <<>>, pos |-> 0, phase |-> "called",
   nest |-> nest]

\* await findFile(...): resolving a local import awaits
Awaits(imports) == Includes(imports, "x")

\* importmap?.inherit of the frame's package, as a list
InheritOf(f) ==
  LET im == packages[f.pkg].importmap
  IN IF im[1] = "object" /\ IsArray(im[2].inherit) THEN im[2].inherit[2] ELSE <<>>

\* dependencies.find((dep) => dep.name === name)
Find(deps, name) ==
  IF \E i \in 1..Len(deps) : deps[i].name = name
  THEN CHOOSE i \in 1..Len(deps) : deps[i].name = name /\ \A j \in 1..(i - 1) : deps[j].name # name
  ELSE 0

\* for (const dependency of otherDependencies) { ... }: the dependencies of an
\* inherited import are added with it as parent, or it is added to the
\* parents of the entry of the same name, when that entry has parents
RECURSIVE MergeInherited(_, _, _)
MergeInherited(deps, others, inheritedImport) ==
  IF others = <<>> THEN deps
  ELSE LET dependency == Head(others)
           at == Find(deps, dependency.name)
           merged ==
             IF at = 0
             THEN Append(deps, SharedDependency(dependency.name, <<"array", <<inheritedImport>>>>))
             ELSE IF IsArray(deps[at].parents)
               THEN [deps EXCEPT ![at].parents = <<"array", Append(@[2], inheritedImport)>>]
             ELSE deps
       IN MergeInherited(merged, Tail(others), inheritedImport)

\* readImportmap(dir, packageDetails) is called for the root package.
StartRead ==
  /\ outcome = "idle"
  /\ outcome' = "running"
  /\ stack' = <<Frame(root, FALSE, 1)>>
  /\ UNCHANGED <<packages, root, outer, resolved>>
  /\ UNCHANGED <<bvars, ivars, evars, lvars, container, xvars, gvars, nvars>>

\* The call on top runs up to its inherit loop: a missing importmap file or
\* import fails, the sharedDependencies of an inherited package without
\* importmap are returned, otherwise the imports are collected.
ReadImportmap ==
  /\ outcome = "running"
  /\ stack[Len(stack)].phase = "called"
  /\ LET f == stack[Len(stack)]
         details == packages[f.pkg]
         im == details.importmap
     IN IF im[1] = "missingFile" \/ (im[1] = "object" /\ Includes(im[2].imports, "bad"))
        THEN outcome' = "failed" /\ stack' = <<>>
        ELSE /\ outcome' = outcome
             /\ stack' = [stack EXCEPT ![Len(stack)] =
                  IF im[1] = "undefined" /\ f.inherited /\ IsArray(details.shared)
                  THEN [f EXCEPT !.phase = "returning",
                                 !.deps = [i \in 1..Len(details.shared[2]) |->
                                             SharedDependency(details.shared[2][i], <<"undefined">>)]]
                  ELSE [f EXCEPT !.phase = "inheriting", !.pos = 1,
                                 !.nest = IF im[1] = "object" /\ Awaits(im[2].imports)
                                          THEN 1 ELSE @,
                                 !.deps = IF im[1] = "object"
                                          THEN [i \in 1..Len(im[2].imports) |->
                                                  SharedDependency(im[2].imports[i], <<"undefined">>)]
                                          ELSE <<>>]]
  /\ UNCHANGED <<packages, root, outer, resolved>>
  /\ UNCHANGED <<bvars, ivars, evars, lvars, container, xvars, gvars, nvars>>

\* The next inherited import: skipped when its package.json is not found,
\* else readImportmap(packageDir, packageDetails, true) is called, on the
\* stack of the caller.  The call stack holds MaxDepth nested calls: one more
\* raises RangeError (Maximum call stack size exceeded), which rejects the
\* promise of every call in progress.  Only the MaxDepth innermost calls in
\* progress are kept in stack: a deeper nesting drops the outermost of them
\* and records that in outer.
Inherit ==
  /\ outcome = "running"
  /\ LET f == stack[Len(stack)]
     IN /\ f.phase = "inheriting"
        /\ f.pos <= Len(InheritOf(f))
        /\ LET inheritedImport == InheritOf(f)[f.pos]
           IN IF inheritedImport \notin Pkgs
              THEN /\ stack' = [stack EXCEPT ![Len(stack)].pos = @ + 1]
                   /\ UNCHANGED <<outer, outcome>>
              ELSE IF f.nest >= MaxDepth
                THEN /\ outcome' = "overflow"
                     /\ stack' = <<>>
                     /\ outer' = outer
              ELSE IF Len(stack) < MaxDepth
                THEN /\ stack' = Append(stack, Frame(inheritedImport, TRUE, f.nest + 1))
                     /\ UNCHANGED <<outer, outcome>>
              ELSE /\ stack' = Append(Tail(stack), Frame(inheritedImport, TRUE, f.nest + 1))
                   /\ outer' = TRUE
                   /\ outcome' = outcome
  /\ UNCHANGED <<packages, root, resolved>>
  /\ UNCHANGED <<bvars, ivars, evars, lvars, container, xvars, gvars, nvars>>

\* The call on top returns its dependencies: to the inherit loop of its
\* caller, which has awaited them and merges them, or to the caller of
\* readImportmap.
ReturnDependencies ==
  /\ outcome = "running"
  /\ Len(stack) = 1 => ~outer
  /\ LET f == stack[Len(stack)]
     IN /\ f.phase = "returning" \/ (f.phase = "inheriting" /\ f.pos > Len(InheritOf(f)))
        /\ IF Len(stack) = 1
           THEN /\ outcome' = "returned"
                /\ resolved' = f.deps
                /\ stack' = <<>>
           ELSE LET caller == stack[Len(stack) - 1]
                IN /\ stack' = [SubSeq(stack, 1, Len(stack) - 1) EXCEPT ![Len(stack) - 1] =
                        [caller EXCEPT !.deps = MergeInherited(@, f.deps, f.pkg), !.pos = @ + 1,
                                       !.nest = 1]]
                   /\ UNCHANGED <<outcome, resolved>>
  /\ UNCHANGED <<packages, root, outer>>
  /\ UNCHANGED <<bvars, ivars, evars, lvars, container, xvars, gvars, nvars>>

ImportmapInit ==
  /\ BridgeInit
  /\ sessionItem = "null"
  /\ InspectIdle
  /\ loadItem = "null"
  /\ EmulatorIdle
  /\ LocaleIdle
  /\ ContainerIdle
  /\ ExternalsIdle
  /\ LanguageIdle
  /\ NavigationIdle
  /\ packages \in [Pkgs -> PackageJsons]
  /\ root = "p"
  /\ stack = <<>>
  /\ outer = FALSE
  /\ outcome = "idle"
  /\ resolved = <<>>

ImportmapNext ==
  \/ StartRead
  \/ ReadImportmap
  \/ Inherit
  \/ ReturnDependencies

\* The calls run on: a call that can take its next step takes it.
SpecImportmap == ImportmapInit /\ [][ImportmapNext]_vars /\ WF_vars(ImportmapNext)

\* ---------------------------------------------------------------- claims

BurstCycles(n, b) == {i \in NamedCycles(n) : cycles[i].burst = b}

\* C1: with hard refresh off, the notifications for one name that arrive each
\* less than `timeout` after the previous one start exactly one cycle for the
\* name (none while the window of the last one is still open, one when a
\* later burst has begun or no timer of the name is pending): one removePilet
\* call and, once its promise has resolved, one addPilet call, which receives
\* the payload of the last of those notifications.
C1_DebouncedOnce ==
  \A n \in Names : \A b \in 1..Len(bursts[n]) :
    LET cs == BurstCycles(n, b)
    IN /\ Cardinality(cs) <= 1
       /\ (b < Len(bursts[n]) \/ NamedTimers(n) = {}) => Cardinality(cs) = 1
       /\ (b = Len(bursts[n]) /\ sinceLast[n] < timeout) => cs = {}
       /\ \A i \in cs :
            /\ cycles[i].removeCalls = <<n>>
            /\ cycles[i].addCalls =
                 (IF cycles[i].phase \in {"removing", "removeRejected"} THEN <<>>
                  ELSE <<JSONparse(bursts[n][b])>>)

\* C1, amended: such notifications start at most one cycle for the name: none
\* while the window of the last one is still open, and exactly one once the
\* timer of the last one has fired, which it does unless a further
\* notification for the name is handled before (the timer may fire later
\* than `timeout` after the last notification); the cycle makes one
\* removePilet call and, once its promise has resolved, one addPilet call,
\* which receives the payload of the last of those notifications.
C1_DebouncedOnceFired ==
  \A n \in Names : \A b \in 1..Len(bursts[n]) :
    LET cs == BurstCycles(n, b)
    IN /\ Cardinality(cs) <= 1
       /\ (b = Len(bursts[n]) /\ NamedTimers(n) = {}) => Cardinality(cs) = 1
       /\ (b = Len(bursts[n]) /\ sinceLast[n] < timeout) => cs = {}
       /\ \A i \in cs :
            /\ cycles[i].removeCalls = <<n>>
            /\ cycles[i].addCalls =
                 (IF cycles[i].phase \in {"removing", "removeRejected"} THEN <<>>
                  ELSE <<JSONparse(bursts[n][b])>>)

\* Two notifications for "a" in one burst, and the cycle reloaded the second.
C1_Witness ==
  /\ sent = 2 /\ threw = 0
  /\ bursts["a"] = <<Notification("a", 2)>> /\ bursts["b"] = <<>>
  /\ \E i \in DOMAIN cycles :
       cycles[i].phase = "reloaded" /\ cycles[i].addCalls = <<JSONparse(Notification("a", 2))>>

\* C2: for every name, at most one reload cycle is in flight (removePilet or
\* addPilet promise not yet settled) at any time.
C2_OneInFlight ==
  \A n \in Names : Cardinality({i \in NamedCycles(n) : cycles[i].phase \in Pending}) <= 1

\* C3: whenever an addPilet for a name completes, a removePilet for that name
\* has completed since the previous addPilet for the name completed.
C3_TeardownBeforeSetup ==
  [][\A i \in DOMAIN cycles :
       (cycles[i].phase = "adding" /\ cycles'[i].phase = "reloaded")
         => removedSince[cycles[i].meta.name]]_vars

NameSettled(n) ==
  /\ NamedTimers(n) = {}
  /\ NamedCycles(n) # {}
  /\ \A i \in NamedCycles(n) : cycles[i].phase = "reloaded"

\* C4: once all reload cycles of a name have settled (here: all fulfilled, no
\* timer pending), the last addPilet applied for the name carries the payload
\* of the most recent notification for it.
C4_SupersededDiscarded ==
  \A n \in Names :
    NameSettled(n) => lastAdded[n] = JSONparse(bursts[n][Len(bursts[n])]).version

\* C5: every cycle calls freezeRouteRefresh once at its start, and unfreeze
\* once when its removePilet/addPilet chain has settled (fulfilled or rejected),
\* never before and never twice.
C5_FreezeReleasedOnce ==
  \A i \in DOMAIN cycles :
    /\ cycles[i].freezes = 1
    /\ cycles[i].unfreezes = (IF cycles[i].phase \in Settled THEN 1 ELSE 0)

\* A cycle whose addPilet rejected, and one whose removePilet rejected, have
\* both released their freeze.
C5_Witness ==
  /\ \E i \in DOMAIN cycles : cycles[i].phase = "addRejected" /\ cycles[i].unfreezes = 1
  /\ \E i \in DOMAIN cycles : cycles[i].phase = "removeRejected" /\ cycles[i].unfreezes = 1

\* C6: a cycle calls removePilet with the notified name, calls addPilet with
\* that notification's descriptor only once removePilet's promise has
\* resolved, and calls neither for any other name.
C6_ExactlyTheNotified ==
  \A i \in DOMAIN cycles :
    LET notified == JSONparse(cycles[i].data)
    IN /\ cycles[i].removeCalls = <<notified.name>>
       /\ cycles[i].addCalls =
            (IF cycles[i].phase \in {"removing", "removeRejected"} THEN <<>>
             ELSE <<notified>>)

\* A cycle for "b" has reloaded with its own descriptor while a cycle for "a"
\* is still removing.
C6_Witness ==
  /\ \E i \in NamedCycles("b") :
       cycles[i].phase = "reloaded" /\ cycles[i].addCalls = <<JSONparse(cycles[i].data)>>
  /\ \E i \in NamedCycles("a") : cycles[i].phase = "removing"

\* C7: there is at most one pending timer per name, and it is the one whose
\* handle timeoutCache holds for the name.
C7_OnePendingTimer ==
  \A n \in Names :
    /\ Cardinality(NamedTimers(n)) <= 1
    /\ \A t \in NamedTimers(n) : t.id = timeoutCache[n]

\* The second notification for "a" replaced the pending timer of the first.
C7_Witness ==
  /\ sent = 2 /\ threw = 0 /\ bursts["b"] = <<>> /\ Len(bursts["a"]) = 1
  /\ \E t \in timers : t.id = 2 /\ t.meta.name = "a" /\ t.remaining < timeout
  /\ cycles = <<>>

\* C8: a message that arrives while the hard-refresh item is 'on' reloads the
\* page and does nothing else: it is not parsed (no syntax error is raised),
\* no timer is created or cleared, and no cycle starts or advances.
C8_HardRefreshBypasses ==
  [][(sent' = sent + 1 /\ sessionItem = "on")
       => /\ reloaded'
          /\ UNCHANGED <<timers, timeoutCache, nextHandle, cycles, threw>>]_vars

\* The third message found the item 'on' and reloaded the page, with a timer
\* pending and a cycle in flight, both left as they were.
C8_Witness ==
  /\ reloaded /\ threw = 0 /\ sent = 3
  /\ bursts["a"] # <<>> /\ bursts["b"] # <<>>
  /\ timers # {}
  /\ \E i \in DOMAIN cycles : cycles[i].phase \in Pending

Recognizable(m) ==
  \/ In("link", m) /\ Get(m, "spec") = "v2"
  \/ In("requireRef", m) /\ Get(m, "spec") # "v2"
  \/ In("bundle", m) /\ Truthy(Get(m, "bundle"))
  \/ In("hash", m)

\* C9: inspectPilet returns, for every descriptor and in both environments,
\* exactly one kind out of v0, v1, v2, bundle, unknown with a runner; a
\* descriptor with no recognizable v0/v1/v2/bundle shape yields 'unknown'
\* with setupSinglePilet.
C9_ClassificationTotal ==
  result # <<>> =>
    /\ Len(result) = 3
    /\ result[1] \in Kinds
    /\ result[3] \in {"setupSinglePilet", "setupPiletBundle"}
    /\ ~Recognizable(meta) =>
         (result[1] = "unknown" /\ result[3] = "setupSinglePilet")

\* A descriptor whose only shape-related fields are a falsy bundle and a spec
\* of v2 was classified as unknown in a browser.
C9_Witness ==
  /\ result # <<>> /\ inBrowser
  /\ DOMAIN meta = {"name", "bundle", "spec"}
  /\ meta["bundle"] = "false" /\ meta["spec"] = "v2"
  /\ result[1] = "unknown"

\* C10: in a browser, a descriptor with a link field and spec 'v2' is
\* classified as v2 whatever other fields it carries.
C10_V2First ==
  (result # <<>> /\ inBrowser /\ In("link", meta) /\ Get(meta, "spec") = "v2")
    => result[1] = "v2"

\* A descriptor carrying link, spec v2, requireRef, a truthy bundle and a hash
\* was classified as v2.
C10_Witness ==
  /\ result # <<>> /\ inBrowser
  /\ DOMAIN meta = {"name", "link", "requireRef", "bundle", "hash", "spec"}
  /\ meta["bundle"] = "true" /\ meta["spec"] = "v2"
  /\ result[1] = "v2"

V2Shape(m) == In("link", m) /\ Get(m, "spec") = "v2"
V1Shape(m) == In("requireRef", m) /\ Get(m, "spec") # "v2"
BundleShape(m) == In("bundle", m) /\ Truthy(Get(m, "bundle"))

\* C11: in a browser, a descriptor with a requireRef field is v1 exactly when
\* its spec is not 'v2', whatever bundle or hash it carries; with spec 'v2'
\* and no link it falls through to bundle, v0 or unknown.
C11_V1UnlessSpecV2 ==
  (result # <<>> /\ inBrowser /\ In("requireRef", meta)) =>
    /\ result[1] = "v1" <=> Get(meta, "spec") # "v2"
    /\ (Get(meta, "spec") = "v2" /\ ~In("link", meta)) =>
         result[1] = (IF BundleShape(meta) THEN "bundle"
                      ELSE IF In("hash", meta) THEN "v0" ELSE "unknown")

\* A descriptor with requireRef, spec v2, no link and a hash was classified
\* as v0 in a browser.
C11_Witness ==
  /\ result # <<>> /\ inBrowser
  /\ DOMAIN meta = {"name", "requireRef", "hash", "spec"} /\ meta["spec"] = "v2"
  /\ result[1] = "v0"

\* C12: in a browser, a descriptor matched by neither the v2 nor the v1 rule
\* whose bundle field is truthy is a bundle; bundle is the only kind paired
\* with setupPiletBundle, every other kind is paired with setupSinglePilet;
\* a falsy bundle field never makes a bundle.
C12_BundleRunner ==
  result # <<>> =>
    /\ (inBrowser /\ ~V2Shape(meta) /\ ~V1Shape(meta) /\ BundleShape(meta))
         => result[1] = "bundle"
    /\ result[3] = (IF result[1] = "bundle" THEN "setupPiletBundle" ELSE "setupSinglePilet")
    /\ (In("bundle", meta) /\ ~Truthy(Get(meta, "bundle"))) => result[1] # "bundle"

\* A descriptor with a truthy bundle, a hash, and requireRef with spec v2 was
\* classified as bundle with the bundle runner.
C12_Witness ==
  /\ result # <<>> /\ inBrowser
  /\ DOMAIN meta = {"name", "requireRef", "bundle", "hash", "spec"}
  /\ meta["bundle"] = "true" /\ meta["spec"] = "v2"
  /\ result[1] = "bundle" /\ result[3] = "setupPiletBundle"

\* C13: a descriptor with a hash field that none of the browser-gated rules
\* matches is v0, in a browser and outside one.
C13_HashIsV0 ==
  (result # <<>> /\ In("hash", meta)
     /\ ~(inBrowser /\ (V2Shape(meta) \/ V1Shape(meta) \/ BundleShape(meta))))
    => (result[1] = "v0" /\ result[3] = "setupSinglePilet")

\* Outside a browser a descriptor with link, spec v2, requireRef, a truthy
\* bundle and a hash was classified as v0.
C13_Witness ==
  /\ result # <<>> /\ ~inBrowser
  /\ DOMAIN meta = {"name", "link", "requireRef", "bundle", "hash", "spec"}
  /\ meta["bundle"] = "true" /\ meta["spec"] = "v2"
  /\ result[1] = "v0"

\* C14: the second element of inspectPilet's result is the descriptor it was
\* given, with no field added, removed or changed, for every kind.
C14_DescriptorPassedThrough ==
  result # <<>> => (result[2] = meta /\ DOMAIN result[2] = DOMAIN meta)

\* A descriptor of no recognizable shape and without a spec was classified as
\* unknown and handed back as it was.
C14_Witness ==
  /\ result # <<>> /\ result[1] = "unknown"
  /\ DOMAIN meta = {"name", "bundle"} /\ result[2] = meta

\* The debug endpoint's answer read as a list
AsList(item) == IF item[1] = "array" THEN item[2] ELSE <<item[2]>>

\* C15 as claimed: with 'dbg:load-pilets' other than 'on', requestPilets is
\* never invoked and the initial module set contains no module.
C15_NoModuleAtAll ==
  loadItem # "on" =>
    /\ requestCalls = 0
    /\ initialSet.state = "fulfilled" => initialSet.value = <<>>

\* C15 as amended: with 'dbg:load-pilets' other than 'on', requestPilets is
\* never invoked and the initial module set contains no feed module: it is the
\* list of the debug endpoint's pilets.
C15_NoFeedModule ==
  loadItem # "on" =>
    /\ requestCalls = 0
    /\ requester # "requestPilets"
    /\ initialSet.state = "fulfilled" =>
         /\ initialSet.value = AsList(response)
         /\ \A i \in 1..Len(initialSet.value) : initialSet.value[i].from = "debug"

\* The item is absent, the callback has run and the initial set holds the two
\* pilets of the debug endpoint.
C15_Witness ==
  /\ loadItem = "null" /\ requester = "noPilets" /\ requestCalls = 0
  /\ initialSet.state = "fulfilled" /\ Len(initialSet.value) = 2

\* C16: the initial module set is the feed pilets whose name no debug pilet
\* has, in feed order, followed by all debug pilets in the endpoint's order,
\* a single descriptor counting as a list of one; no feed pilet in it shares
\* a name with a debug pilet.
C16_FeedThenDebug ==
  initialSet.state = "fulfilled" =>
    LET feed == IF promise.state = "fulfilled" THEN promise.value ELSE <<>>
        debug == AsList(response)
        res == initialSet.value
        n == Len(res) - Len(debug)
        Fresh(m) == \A j \in 1..Len(debug) : debug[j].name # m.name
    IN /\ n >= 0
       /\ SubSeq(res, n + 1, Len(res)) = debug
       /\ SubSeq(res, 1, n) = SelectSeq(feed, Fresh)
       /\ \A i \in 1..n : \A j \in (n + 1)..Len(res) :
            res[i].from = "feed" /\ res[j].from = "debug" /\ res[i].name # res[j].name

\* The feed gave a and b, the endpoint the single descriptor b: the set is
\* the feed's a followed by the debug b.
C16_Witness ==
  /\ promise.state = "fulfilled" /\ Len(promise.value) = 2
  /\ promise.value[1].name = "a" /\ promise.value[2].name = "b"
  /\ response = <<"object", Pilet("b", "debug")>>
  /\ initialSet.state = "fulfilled"
  /\ initialSet.value = <<Pilet("a", "feed"), Pilet("b", "debug")>>

\* C20: when the promise of the pilet requester rejects, the initial module
\* set does not reject for that: once the debug endpoint has answered it is
\* fulfilled with exactly the endpoint's pilets.
C20_FeedFailureTolerated ==
  promise.state = "rejected" =>
    /\ initialSet.state = "rejected" => appendix.state = "rejected"
    /\ appendix.state = "fulfilled" =>
         (initialSet.state = "fulfilled" /\ initialSet.value = AsList(response))

\* The feed request was rejected and the initial set holds the two pilets of
\* the debug endpoint.
C20_Witness ==
  /\ promise.state = "rejected" /\ requestCalls = 1
  /\ initialSet.state = "fulfilled" /\ Len(initialSet.value) = 2

\* C17: getTranslations of an instance returns the messages of the last
\* setTranslations on that instance ({} before any), translate uses the same,
\* and setTranslations on one instance leaves the translations of every other
\* instance as they were.
C17_TranslationsPerInstance ==
  /\ \A p \in DOMAIN localTranslations : localTranslations[p] = lastSet[p]
  /\ call.op \in {"getTranslations", "translate"} => call.messages = lastSet[call.pilet]

\* After different translations were set on the instances of a and b,
\* getTranslations of a returned a's.
C17_Witness ==
  /\ DOMAIN localTranslations = {"a", "b"}
  /\ lastSet["a"] # NoMessages /\ lastSet["b"] # NoMessages /\ lastSet["a"] # lastSet["b"]
  /\ call.op = "getTranslations" /\ call.pilet = "a" /\ call.messages = lastSet["a"]

\* The calls of op in the container's log
Calls(op) == {i \in 1..Len(container.log) : container.log[i][1] = op}

\* C18: mount is called once the container is rendered; unmount is not
\* called while the container stays rendered with the node it mounted on;
\* unmount is called when the container is unmounted; unmount never comes
\* before mount.
C18_MountThenUnmount ==
  /\ container.phase # "none" =>
       (container.log # <<>> /\ container.log[1] = <<"mount", Div>>)
  /\ \A i \in Calls("unmount") : \E j \in Calls("mount") : j < i
  /\ (container.phase = "mounted" /\ ~container.patched) => Calls("unmount") = {}
  /\ (container.phase = "unmounted" /\ "unmount" \in container.component) =>
       /\ container.log[Len(container.log)][1] = "unmount"
       /\ ~container.patched => container.log[Len(container.log)] = <<"unmount", Div>>

\* A container with an unmount function was re-rendered and then unmounted:
\* its only unmount call is the last call, on the div.
C18_Witness ==
  /\ container.phase = "unmounted" /\ ~container.patched
  /\ container.rerenders >= 1
  /\ Cardinality(Calls("unmount")) = 1
  /\ container.log[Len(container.log)] = <<"unmount", Div>>

\* C19: each re-render calls update, on the node mounted on, when that node
\* is still the container's node, and update is not called before the first
\* re-render; when the recorded node differs from the current one, each
\* re-render unmounts from the recorded node and mounts again instead, and
\* update is not called.
C19_UpdateOrRemount ==
  LET c == container
      unmounts == IF "unmount" \in c.component
                  THEN c.rerenders + (IF c.phase = "unmounted" THEN 1 ELSE 0) ELSE 0
  IN c.phase # "none" =>
       IF c.patched
       THEN /\ Calls("update") = {}
            /\ Cardinality(Calls("mount")) = 1 + c.rerenders
            /\ Cardinality(Calls("unmount")) = unmounts
            /\ \A i \in Calls("unmount") : c.log[i][2] = Stub
            /\ \A i \in Calls("mount") : c.log[i][2] = Div
       ELSE /\ Cardinality(Calls("update")) =
                 (IF "update" \in c.component THEN c.rerenders ELSE 0)
            /\ \A i \in Calls("update") : c.log[i][2] = Div
            /\ Cardinality(Calls("mount")) = 1

\* With a different node recorded at mount, one re-render unmounted from the
\* recorded node and mounted again on the div, without an update.
C19_Witness ==
  /\ container.patched /\ container.phase = "mounted" /\ container.rerenders = 1
  /\ container.component = {"mount", "update", "unmount"}
  /\ container.log = <<<<"mount", Div>>, <<"unmount", Stub>>, <<"mount", Div>>>>

\* The entry stays in the importmap / is moved to the externals, by the
\* claim's rule: moved exactly when it has a parents list that holds every
\* referenced app shell.
C21_Moves(e) ==
  /\ e.parents[1] = "array"
  /\ {appShells[i] : i \in 1..Len(appShells)}
       \subseteq {e.parents[2][j] : j \in 1..Len(e.parents[2])}
C21_Stays(e) == ~C21_Moves(e)

\* C21: combinePiletExternals removes an entry from the importmap and appends
\* its name to the externals exactly when the entry has a parents list that
\* holds every referenced app shell; entries without parents stay; every
\* entry passed is afterwards in exactly one of the two: it is an entry of
\* the remaining importmap or its name is in the returned externals, never
\* both; the externals start with the keys of peerDependencies followed by
\* peerModules.
C21_Partition ==
  externals # <<>> =>
    LET ext == externals[1]
        keys == [i \in 1..Len(peerDependencies) |-> peerDependencies[i][1]]
        k == Len(keys) + Len(peerModules)
        moved == SelectSeq(givenImportmap, C21_Moves)
        appended == SubSeq(ext, k + 1, Len(ext))
    IN /\ Len(ext) >= k
       /\ SubSeq(ext, 1, k) = keys \o peerModules
       /\ importmap = SelectSeq(givenImportmap, C21_Stays)
       /\ appended = [j \in 1..Len(moved) |-> moved[Len(moved) + 1 - j].name]
       /\ \A i \in 1..Len(givenImportmap) :
            givenImportmap[i].parents[1] = "undefined"
              => \E j \in 1..Len(importmap) : importmap[j] = givenImportmap[i]
       /\ \A i \in 1..Len(givenImportmap) :
            (\E j \in 1..Len(importmap) : importmap[j] = givenImportmap[i])
              # (\E j \in 1..Len(ext) : ext[j] = givenImportmap[i].name)

\* C21, amended: as above, but the two parts are the entries left in the
\* importmap and the names appended to the externals: the importmap is left
\* with the entries that stay, in their order, the names appended after the
\* peer names are the names of the moved entries, last entry first, and each
\* entry passed accounts for exactly one element of the two.  (The name of an
\* entry that stays may still occur in the externals, as a peer name or as
\* the name of a moved entry.)
C21_PartitionByEntry ==
  externals # <<>> =>
    LET ext == externals[1]
        keys == [i \in 1..Len(peerDependencies) |-> peerDependencies[i][1]]
        k == Len(keys) + Len(peerModules)
        moved == SelectSeq(givenImportmap, C21_Moves)
        appended == SubSeq(ext, k + 1, Len(ext))
    IN /\ Len(ext) >= k
       /\ SubSeq(ext, 1, k) = keys \o peerModules
       /\ importmap = SelectSeq(givenImportmap, C21_Stays)
       /\ appended = [j \in 1..Len(moved) |-> moved[Len(moved) + 1 - j].name]
       /\ Len(importmap) + Len(appended) = Len(givenImportmap)
       /\ \A i \in 1..Len(givenImportmap) :
            givenImportmap[i].parents[1] = "undefined"
              => \E j \in 1..Len(importmap) : importmap[j] = givenImportmap[i]

\* With two app shells, react shared by both was moved to the externals, after
\* the peer dependency and the peer module, and lodash shared by one of them
\* stayed in the importmap.
C21_Witness ==
  /\ appShells = <<"shell1", "shell2">>
  /\ givenImportmap = <<SharedDependency("react", <<"array", <<"shell1", "shell2">>>>),
                        SharedDependency("lodash", <<"array", <<"shell1">>>>)>>
  /\ importmap = <<SharedDependency("lodash", <<"array", <<"shell1">>>>)>>
  /\ externals = <<<<"react", "lodash/fp", "react">>>>

\* C22: outside a browser inspectPilet returns v0 or unknown only: v0 for a
\* descriptor with a hash field, unknown for one without, whatever link, spec,
\* requireRef or bundle it carries.
C22_NonBrowser ==
  (result # <<>> /\ ~inBrowser) =>
    /\ result[1] \in {"v0", "unknown"}
    /\ result[1] = (IF In("hash", meta) THEN "v0" ELSE "unknown")
    /\ result[3] = "setupSinglePilet"

\* Outside a browser the descriptor {name, link, spec: 'v2'} was classified
\* as unknown.
C22_Witness ==
  /\ result # <<>> /\ ~inBrowser
  /\ DOMAIN meta = {"name", "link", "spec"} /\ meta["spec"] = "v2"
  /\ result[1] = "unknown"

\* C23: a message that is not a change notification for name n handled by the
\* bridge leaves the pending timer of n (its payload and the time it has
\* left) and the handle stored for n as they were; and once the timer of a
\* notified name n is no longer pending, n has its own cycle, for n, with the
\* payload of the last notification for n, whatever was notified for other
\* names in between.
C23_PerNameDebounce ==
  /\ [][\A n \in Names :
         (sent' = sent + 1 /\ bursts'[n] = bursts[n])
           => (NamedTimers(n)' = NamedTimers(n) /\ timeoutCache'[n] = timeoutCache[n])]_vars
  /\ [](\A n \in Names :
          (bursts[n] # <<>> /\ NamedTimers(n) = {}) =>
            \E i \in DOMAIN cycles :
              /\ cycles[i].data = bursts[n][Len(bursts[n])]
              /\ cycles[i].meta.name = n
              /\ cycles[i].removeCalls = <<n>>)

\* Notifications for a, b and a again, each within the window of the one
\* before: a was reloaded once with its second payload and b once with its own.
C23_Witness ==
  /\ sent = 3 /\ threw = 0
  /\ bursts["a"] = <<Notification("a", 3)>> /\ bursts["b"] = <<Notification("b", 2)>>
  /\ Cardinality(DOMAIN cycles) = 2
  /\ \E i \in NamedCycles("a") :
       cycles[i].phase = "reloaded" /\ cycles[i].addCalls = <<JSONparse(Notification("a", 3))>>
  /\ \E i \in NamedCycles("b") :
       cycles[i].phase = "reloaded" /\ cycles[i].addCalls = <<JSONparse(Notification("b", 2))>>

\* C24: a cycle whose removePilet rejected never calls addPilet; the rejection
\* is taken by a rejection handler of the chain (it is not left unhandled) and
\* raises nothing in the bridge, whose timers and handles stay as they were;
\* the cycle stays as it is from then on; and a later notification for the
\* same name has, once its timer has fired, a cycle of its own, and every
\* later cycle for the name is started as any other: one freeze, removePilet
\* of the name, and addPilet with its burst's last payload once that
\* removePilet resolved.
C24_RemoveRejected ==
  /\ [](\A i \in DOMAIN cycles :
          cycles[i].phase = "removeRejected" =>
            /\ cycles[i].addCalls = <<>>
            /\ cycles[i].unfreezes = 1
            /\ \A b \in (cycles[i].burst + 1)..Len(bursts[cycles[i].meta.name]) :
                 /\ (b = Len(bursts[cycles[i].meta.name]) /\ NamedTimers(cycles[i].meta.name) = {})
                      => BurstCycles(cycles[i].meta.name, b) # {}
                 /\ \A j \in BurstCycles(cycles[i].meta.name, b) :
                      /\ cycles[j].freezes = 1
                      /\ cycles[j].removeCalls = <<cycles[i].meta.name>>
                      /\ cycles[j].addCalls =
                           (IF cycles[j].phase \in {"removing", "removeRejected"} THEN <<>>
                            ELSE <<JSONparse(bursts[cycles[i].meta.name][b])>>))
  /\ [][\A i \in DOMAIN cycles :
          /\ (cycles[i].phase = "removing" /\ cycles'[i].phase = "removeRejected")
               => UNCHANGED <<threw, reloaded, timers, timeoutCache, nextHandle>>
          /\ cycles[i].phase = "removeRejected" => cycles'[i] = cycles[i]]_vars

\* The removePilet of the first cycle for a rejected; a later notification for
\* a started a second cycle, which reloaded a with its payload.
C24_Witness ==
  /\ threw = 0 /\ ~reloaded
  /\ \E i, j \in NamedCycles("a") :
       /\ i < j
       /\ cycles[i].phase = "removeRejected" /\ cycles[i].addCalls = <<>>
       /\ cycles[j].phase = "reloaded" /\ cycles[j].addCalls = <<JSONparse(cycles[j].data)>>

\* The timer with handle h or a later one has fired and its cycle called
\* removePilet(n).
StartedFor(h, n) == \E i \in DOMAIN cycles : i >= h /\ cycles[i].removeCalls = <<n>>
\* The cycle of handle h has called freezeRouteRefresh.
Frozen(h) == IF h \in DOMAIN cycles THEN cycles[h].freezes = 1 ELSE FALSE
\* The cycle of handle h has called unfreeze as often as freezeRouteRefresh.
Released(h) == IF h \in DOMAIN cycles THEN cycles[h].unfreezes = cycles[h].freezes ELSE FALSE

\* C25: unless the page is reloaded by a hard refresh, the timer of a change
\* notification for a name is eventually followed by a cycle that calls
\* removePilet for the name (its own, or that of a later notification for the
\* name, which replaced it); with promises that settle,
\* every cycle eventually calls unfreeze as often as it called
\* freezeRouteRefresh; and once all cycles have settled no freeze is held.
C25_EventuallyReloaded ==
  /\ \A n \in Names : \A h \in 1..MaxLiveMsgs :
       (\E t \in NamedTimers(n) : t.id = h)
         ~> (StartedFor(h, n) \/ reloaded)
  /\ \A h \in 1..MaxLiveMsgs : Frozen(h) ~> (Released(h) \/ reloaded)
  /\ []((\A i \in DOMAIN cycles : cycles[i].phase \in Settled)
          => \A i \in DOMAIN cycles : cycles[i].unfreezes = cycles[i].freezes)

\* Two notifications, the second after the window of the first, have each
\* led to a cycle; both have settled, one by a rejected removePilet and one by
\* a rejected addPilet, and no freeze is held.
C25_Witness ==
  /\ sent = 2 /\ threw = 0 /\ ~reloaded /\ timers = {}
  /\ Cardinality(DOMAIN cycles) = 2
  /\ \A i \in DOMAIN cycles : cycles[i].phase \in Settled /\ cycles[i].unfreezes = 1
  /\ \E i \in DOMAIN cycles : cycles[i].phase = "removeRejected"
  /\ \E i \in DOMAIN cycles : cycles[i].phase = "addRejected"

\* The elements of list
Elements(list) == {list[i] : i \in 1..Len(list)}

\* C26: the localizer built for a LocaleConfig has at least one available
\* language and its selected language is one of them; the selected language
\* is what config.language gives (called with the message languages, the
\* default language and 'en' when it is a function) and, when that gives
\* nothing, the first language of config.messages, or 'en' without messages.
C26_SelectedAvailable ==
  localizer # NoLocalizer =>
    LET keys == IF config.messages[1] = "undefined" THEN <<>> ELSE config.messages[2]
        default == IF keys = <<>> THEN "en" ELSE keys[1]
        given == CASE config.language[1] = "string" -> config.language[2]
                   [] config.language = <<"function", "default">> -> default
                   [] config.language = <<"function", "fallback">> -> "en"
                   [] config.language = <<"function", "first">> ->
                        (IF keys = <<>> THEN "undefined" ELSE keys[1])
                   [] OTHER -> "undefined"
    IN /\ Len(localizer.languages) > 0
       /\ localizer.language \in Elements(localizer.languages)
       /\ localizer.language = (IF given \in {"", "undefined"} THEN default ELSE given)

\* C27: the cb given to getCurrentLanguage has been called with the language
\* selected at the call, then with the currentLanguage of every
\* select-language event since, up to the call of the returned disposer and
\* no further; exactly the subscriptions not disposed have a handler
\* registered; getCurrentLanguage without cb registers no handler and returns
\* the language selected at the call.
C27_CallbackCalls ==
  /\ \A h \in DOMAIN subscriptions :
       LET sub == subscriptions[h]
           last == IF sub.until = -1 THEN Len(events) ELSE sub.until
       IN sub.calls = <<sub.first>> \o SubSeq(events, sub.from + 1, last)
  /\ handlers = {h \in DOMAIN subscriptions : subscriptions[h].until = -1}
  /\ lastGet.cb => (lastGet.added = 1 /\ lastGet.returned = "disposer")
  /\ (lastGet # NoGet /\ ~lastGet.cb) =>
       (lastGet.added = 0 /\ lastGet.returned = lastGet.selected)

\* A cb registered when de was selected got de, then the event for en; its
\* disposer was called before the second event, for de, which it did not get;
\* a later getCurrentLanguage without cb returned the selected language.
C27_Witness ==
  /\ Len(subscriptions) >= 1
  /\ subscriptions[1].calls = <<"de", "en">>
  /\ events = <<"en", "de">>
  /\ 1 \notin handlers
  /\ lastGet # NoGet /\ ~lastGet.cb /\ lastGet.returned = language.selected

\* C28: _nav is set only while the component using useCurrentNavigation is
\* mounted; an operation that found _nav unset made no call on the router's
\* history and, for block and listen, returned the no-op disposer; and no
\* operation of the navigation object or of an enhanced location, the read of
\* location.href included, has thrown.
C28_NeverFails ==
  /\ nav # "undefined" => routerMounted > 0
  /\ lastNav.nav = "undefined" =>
       /\ lastNav.calls = 0
       /\ lastNav.op \in {"block", "listen"} => lastNav.returned = "_noop"
  /\ ~lastNav.threw
  /\ navThrew = 0

\* C29: readImportmap terminates whatever the inherit lists of the packages
\* are: every call eventually ends, by returning its list of shared
\* dependencies or by failing with an error (the RangeError of an exhausted
\* call stack is counted as such an end here).
C29_Terminates == (outcome = "running") ~> (outcome \in {"returned", "failed", "overflow"})

====
